---- MODULE Spec2Model ----
(***************************************************************************)
(* Model of src/parse_rrc.py: the fixed-width RRC permit file parser.      *)
(*                                                                         *)
(* Python strings are modelled as sequences of one-character strings, so   *)
(* that slicing, padding and stripping are computed and not assumed.       *)
(* Python dicts are modelled as functions whose domain is the set of keys. *)
(***************************************************************************)
EXTENDS Integers, Sequences, FiniteSets, TLC

VARIABLES
    input,                \* the lines the loop of process_file has consumed from f_in
    pc,                   \* "reading" inside the for loop, "done" after it
    permits,              \* list of finalized permit dicts
    all_fields,           \* list of field-segment dicts
    all_restrictions,     \* list of restriction-segment dicts
    current_permit_data,  \* dict of the permit being assembled ({} when none)
    line_num,             \* physical lines read
    record_counts,        \* defaultdict(int): record id -> occurrences
    fd_pc,                \* a call of format_implied_decimal: "idle", "call", "returned"
    fd_value,             \* its argument value
    fd_len,               \* its argument integer_part_len
    fd_result,            \* its return value
    pl_pc,                \* a call of parse_line: "idle", "call", "returned"
    pl_line,              \* the line read from the file, before it is padded
    pl_id,                \* the record id whose layout is passed as record_map
    pl_result,            \* its return value
    csv_out               \* the tables written to OUTPUT_DIR: file name -> table

asm_vars == <<input, pc, permits, all_fields, all_restrictions,
              current_permit_data, line_num, record_counts>>
fd_vars == <<fd_pc, fd_value, fd_len, fd_result>>
pl_vars == <<pl_pc, pl_line, pl_id, pl_result>>
vars == <<input, pc, permits, all_fields, all_restrictions,
          current_permit_data, line_num, record_counts,
          fd_pc, fd_value, fd_len, fd_result,
          pl_pc, pl_line, pl_id, pl_result, csv_out>>

(***************************************************************************)
(* Bounds of the model.                                                    *)
(***************************************************************************)
MaxLines == 4
MaxValueLen == 4
MaxIntegerPartLen == 3

(***************************************************************************)
(* Python string primitives.                                               *)
(***************************************************************************)
RECORD_LENGTH == 510

Digits == {"0", "1", "2", "3", "4", "5", "6", "7", "8", "9"}

IsSpace(c) == c \in {" ", "\n", "\t", "\r"}

Min(a, b) == IF a <= b THEN a ELSE b

Spaces(n) == [i \in 1..n |-> " "]

\* s.ljust(width, ' ')
ljust(s, width) == IF Len(s) >= width THEN s ELSE s \o Spaces(width - Len(s))

\* s[start:stop] for 0 <= start <= stop (clipped to the string, never an error)
Slice(s, start, stop) == SubSeq(s, start + 1, Min(stop, Len(s)))

RECURSIVE lstrip(_)
lstrip(s) == IF s # <<>> /\ IsSpace(Head(s)) THEN lstrip(Tail(s)) ELSE s

RECURSIVE rstrip(_)
rstrip(s) ==
    IF s # <<>> /\ IsSpace(s[Len(s)]) THEN rstrip(SubSeq(s, 1, Len(s) - 1)) ELSE s

\* s.strip()
strip(s) == rstrip(lstrip(s))

\* s.rstrip('\n')
RECURSIVE rstrip_newline(_)
rstrip_newline(s) ==
    IF s # <<>> /\ s[Len(s)] = "\n"
    THEN rstrip_newline(SubSeq(s, 1, Len(s) - 1))
    ELSE s

\* s.replace(c, '')
remove_char(s, c) == SelectSeq(s, LAMBDA x : x # c)

\* s.isdigit()
isdigit(s) == s # <<>> /\ \A i \in 1..Len(s) : s[i] \in Digits

\* s.startswith(c)
startswith(s, c) == s # <<>> /\ s[1] = c

(***************************************************************************)
(* Python dict primitives.                                                 *)
(***************************************************************************)
EmptyDict == [k \in {} |-> <<>>]

\* Python's None (the default of dict.get); no string equals it
None == <<"None">>

\* a dict counts as a current permit only when it has a status number
truthy_status(d) ==
    IF "DA_STATUS_NUMBER" \in DOMAIN d THEN d["DA_STATUS_NUMBER"] # <<>> ELSE FALSE

\* bool(d)
truthy(d) == DOMAIN d # {}

\* d.get(k)
dict_get(d, k) == IF k \in DOMAIN d THEN d[k] ELSE None

\* d.get(k, '')
dict_get_str(d, k) == IF k \in DOMAIN d THEN d[k] ELSE <<>>

\* d[k] = v
dict_set(d, k, v) == (k :> v) @@ d

\* d.update(e)
dict_update(d, e) == e @@ d

(***************************************************************************)
(* RECORD_MAPS: record id -> list of (name, start, length).                *)
(***************************************************************************)
Tag01 == <<"0", "1">>
Tag02 == <<"0", "2">>
Tag03 == <<"0", "3">>
Tag06 == <<"0", "6">>
Tag08 == <<"0", "8">>
Tag14 == <<"1", "4">>
Tag15 == <<"1", "5">>

Layout01 ==
    << <<"RRC_TAPE_RECORD_ID", 0, 2>>,
       <<"DA_STATUS_NUMBER", 2, 7>>,
       <<"DA_STATUS_SEQUENCE_NUMBER", 9, 2>>,
       <<"DA_COUNTY_CODE_ROOT", 11, 3>>,
       <<"DA_LEASE_NAME_ROOT", 14, 32>>,
       <<"DA_DISTRICT_ROOT", 46, 2>>,
       <<"DA_OPERATOR_NUMBER_ROOT", 48, 6>>,
       <<"DA_DATE_APP_RECEIVED", 58, 8>>,
       <<"DA_OPERATOR_NAME", 66, 32>>,
       <<"DA_STATUS_OF_APP_FLAG", 100, 1>>,
       <<"DA_PERMIT_ROOT", 112, 7>>,
       <<"DA_ISSUE_DATE", 119, 8>>,
       <<"DA_WELL_NUMBER_ROOT", 156, 6>>,
       <<"DA_ECAP_FILING_FLAG", 182, 1>> >>

Layout02Tail ==
    << <<"DA_PERMIT_SEQUENCE_NUMBER", 11, 2>>,
       <<"DA_PERMIT_COUNTY_CODE", 13, 3>>,
       <<"DA_PERMIT_LEASE_NAME", 16, 32>>,
       <<"DA_PERMIT_DISTRICT", 48, 2>>,
       <<"DA_PERMIT_WELL_NUMBER", 50, 6>>,
       <<"DA_PERMIT_TOTAL_DEPTH", 56, 5>>,
       <<"DA_PERMIT_OPERATOR_NUMBER", 61, 6>>,
       <<"DA_TYPE_APPLICATION", 67, 2>>,
       <<"DA_RECEIVED_DATE", 123, 8>>,
       <<"DA_PERMIT_ISSUED_DATE", 131, 8>>,
       <<"DA_WELL_STATUS", 171, 1>>,
       <<"DA_RULE_37_CASE_NUMBER", 230, 7>>,
       <<"DA_OLD_SURFACE_LOCATION", 245, 52>>,
       <<"DA_SURFACE_ACRES", 327, 8>>,
       <<"DA_SURFACE_MILES_FROM_CITY", 335, 6>>,
       <<"DA_SURFACE_DIRECTION_FROM_CITY", 341, 6>>,
       <<"DA_SURFACE_NEAREST_CITY", 347, 13>>,
       <<"DA_NEAREST_WELL", 444, 28>>,
       <<"DA_DIRECTIONAL_WELL_FLAG", 483, 1>>,
       <<"DA_HORIZONTAL_WELL_FLAG", 495, 1>>,
       <<"API_NUMBER", 504, 8>> >>

Layout02 == << <<"DA_PERMIT_NUMBER", 4, 7>> >> \o Layout02Tail

Layout03 ==
    << <<"DA_FIELD_NUMBER", 2, 8>>,
       <<"DA_FIELD_APPLICATION_WELL_CODE", 10, 1>>,
       <<"DA_FIELD_COMPLETION_WELL_CODE", 11, 1>>,
       <<"DA_FIELD_COMPLETION_DATE", 22, 8>> >>

Layout06 ==
    << <<"DA_CAN_RESTR_KEY", 2, 2>>,
       <<"DA_CAN_RESTR_TYPE", 4, 2>>,
       <<"DA_CAN_RESTR_REMARK", 6, 35>>,
       <<"DA_CAN_RESTR_FLAG", 76, 1>> >>

Layout08 ==
    << <<"DA_FREE_RESTR_KEY", 2, 2>>,
       <<"DA_FREE_RESTR_REMARK", 6, 70>>,
       <<"DA_FREE_RESTR_FLAG", 76, 1>> >>

Layout14 ==
    << <<"SURFACE_LONGITUDE", 3, 12>>,
       <<"SURFACE_LATITUDE", 15, 12>> >>

Layout15 ==
    << <<"BH_LONGITUDE", 3, 12>>,
       <<"BH_LATITUDE", 15, 12>> >>

KnownTags == {Tag01, Tag02, Tag03, Tag06, Tag08, Tag14, Tag15}

\* RECORD_MAPS as a careless edit would leave it: the '02' layout reads the
\* status number of the line instead of the permit number.
RECORD_MAPS_status_in_master ==
    [t \in KnownTags |->
        CASE t = Tag01 -> Layout01
          [] t = Tag02 -> << <<"DA_STATUS_NUMBER", 4, 7>> >> \o Layout02Tail
          [] t = Tag03 -> Layout03
          [] t = Tag06 -> Layout06
          [] t = Tag08 -> Layout08
          [] t = Tag14 -> Layout14
          [] t = Tag15 -> Layout15]

RECORD_MAPS ==
    [t \in KnownTags |->
        CASE t = Tag01 -> Layout01
          [] t = Tag02 -> Layout02
          [] t = Tag03 -> Layout03
          [] t = Tag06 -> Layout06
          [] t = Tag08 -> Layout08
          [] t = Tag14 -> Layout14
          [] t = Tag15 -> Layout15]

\* RECORD_MAPS.get(record_id) is truthy
has_record_map(record_id) == record_id \in DOMAIN RECORD_MAPS

(***************************************************************************)
(* parse_line: record_data after the first n entries of record_map; an     *)
(* entry assigns record_data[name], so that the last entry of a name wins. *)
(***************************************************************************)
RECURSIVE parse_entries(_, _, _)
parse_entries(line, record_map, n) ==
    IF n = 0
    THEN EmptyDict
    ELSE LET name == record_map[n][1]
             start == record_map[n][2]
             length == record_map[n][3]
             value == strip(Slice(line, start, start + length))
         IN  dict_set(parse_entries(line, record_map, n - 1), name, value)

parse_line(line, record_map) == parse_entries(line, record_map, Len(record_map))

(***************************************************************************)
(* format_implied_decimal                                                  *)
(***************************************************************************)
\* the sign is lost on the way out
format_implied_decimal_unsigned(value, integer_part_len) ==
    IF value = <<>> \/ ~isdigit(remove_char(remove_char(value, "-"), "."))
    THEN value
    ELSE LET is_negative == startswith(value, "-")
             v == IF is_negative THEN Tail(value) ELSE value
         IN  IF Len(v) <= integer_part_len
             THEN v
             ELSE Slice(v, 0, integer_part_len) \o <<".">>
                      \o Slice(v, integer_part_len, Len(v))

\* the sign is left in place and counted as an integer digit
format_implied_decimal_sign_counted(value, integer_part_len) ==
    IF value = <<>> \/ ~isdigit(remove_char(remove_char(value, "-"), "."))
    THEN value
    ELSE IF Len(value) <= integer_part_len
         THEN value
         ELSE Slice(value, 0, integer_part_len) \o <<".">>
                  \o Slice(value, integer_part_len, Len(value))

format_implied_decimal(value, integer_part_len) ==
    IF value = <<>> \/ ~isdigit(remove_char(remove_char(value, "-"), "."))
    THEN value
    ELSE LET is_negative == startswith(value, "-")
             v == IF is_negative THEN Tail(value) ELSE value
             formatted_value ==
                 IF Len(v) <= integer_part_len
                 THEN v
                 ELSE Slice(v, 0, integer_part_len) \o <<".">>
                          \o Slice(v, integer_part_len, Len(v))
         IN  IF is_negative THEN <<"-">> \o formatted_value ELSE formatted_value

(***************************************************************************)
(* The steps of the loop body of process_file.                             *)
(***************************************************************************)
\* the parent is appended even when none is current
finalize_on_parent_unguarded(ps, cur) == Append(ps, cur)

\* lines 142-143: if current_permit_data: permits.append(current_permit_data)
finalize_on_parent(ps, cur) == IF truthy(cur) THEN Append(ps, cur) ELSE ps

\* the parent current at end of input is forgotten
finalize_at_eof_forgotten(ps, cur) == ps

\* lines 177-178, after the loop
finalize_at_eof(ps, cur) == IF truthy(cur) THEN Append(ps, cur) ELSE ps

\* the test for a current parent is left out
elif_current_always(cur) == TRUE

\* line 146: elif current_permit_data:
elif_current(cur) == truthy(cur)

\* the first value of a key is kept instead of the last
permit_master_merge_first_wins(cur, line, record_map) ==
    LET parsed == parse_line(line, record_map)
        acres == dict_set(parsed, "DA_SURFACE_ACRES",
                     format_implied_decimal(dict_get_str(parsed, "DA_SURFACE_ACRES"), 6))
        permit_master_data ==
            dict_set(acres, "DA_SURFACE_MILES_FROM_CITY",
                format_implied_decimal(dict_get_str(acres, "DA_SURFACE_MILES_FROM_CITY"), 4))
    IN  dict_update(permit_master_data, cur)

\* lines 151-154
permit_master_merge(cur, line, record_map) ==
    LET parsed == parse_line(line, record_map)
        acres == dict_set(parsed, "DA_SURFACE_ACRES",
                     format_implied_decimal(dict_get_str(parsed, "DA_SURFACE_ACRES"), 6))
        permit_master_data ==
            dict_set(acres, "DA_SURFACE_MILES_FROM_CITY",
                format_implied_decimal(dict_get_str(acres, "DA_SURFACE_MILES_FROM_CITY"), 4))
    IN  dict_update(cur, permit_master_data)

\* the back-reference is read under the key of the permit-master record
field_entity_wrong_key(line, record_map, cur) ==
    dict_set(parse_line(line, record_map), "PARENT_STATUS_NUMBER",
             dict_get(cur, "DA_PERMIT_NUMBER"))

\* lines 157-158
field_entity(line, record_map, cur) ==
    dict_set(parse_line(line, record_map), "PARENT_STATUS_NUMBER",
             dict_get(cur, "DA_STATUS_NUMBER"))

\* the two literals of line 164
CANNED == <<"C", "A", "N", "N", "E", "D">>
FREE_FORM == <<"F", "R", "E", "E", "_", "F", "O", "R", "M">>

\* the restriction labelled with the other type
restriction_entity_types_swapped(line, record_map, record_id, cur) ==
    dict_set(
        dict_set(parse_line(line, record_map), "PARENT_STATUS_NUMBER",
                 dict_get(cur, "DA_STATUS_NUMBER")),
        "RESTRICTION_TYPE",
        IF record_id = Tag06 THEN FREE_FORM ELSE CANNED)

\* lines 162-164
restriction_entity(line, record_map, record_id, cur) ==
    dict_set(
        dict_set(parse_line(line, record_map), "PARENT_STATUS_NUMBER",
                 dict_get(cur, "DA_STATUS_NUMBER")),
        "RESTRICTION_TYPE",
        IF record_id = Tag06 THEN CANNED ELSE FREE_FORM)

\* lines 168-170
gis_surface_merge(cur, line, record_map) ==
    LET gis_data == parse_line(line, record_map)
    IN  dict_set(
            dict_set(cur, "SURFACE_LATITUDE",
                format_implied_decimal(dict_get_str(gis_data, "SURFACE_LATITUDE"), 2)),
            "SURFACE_LONGITUDE",
            format_implied_decimal(dict_get_str(gis_data, "SURFACE_LONGITUDE"), 3))

\* lines 173-175
gis_bottom_merge(cur, line, record_map) ==
    LET gis_data == parse_line(line, record_map)
    IN  dict_set(
            dict_set(cur, "BH_LATITUDE",
                format_implied_decimal(dict_get_str(gis_data, "BH_LATITUDE"), 2)),
            "BH_LONGITUDE",
            format_implied_decimal(dict_get_str(gis_data, "BH_LONGITUDE"), 3))

(***************************************************************************)
(* The tables written after the loop (lines 181-210).                      *)
(***************************************************************************)
\* every key a row can have, in the order sorted() gives them
SortedNames ==
    << "API_NUMBER", "BH_LATITUDE", "BH_LONGITUDE", "DA_CAN_RESTR_FLAG",
        "DA_CAN_RESTR_KEY", "DA_CAN_RESTR_REMARK", "DA_CAN_RESTR_TYPE",
        "DA_COUNTY_CODE_ROOT", "DA_DATE_APP_RECEIVED",
        "DA_DIRECTIONAL_WELL_FLAG", "DA_DISTRICT_ROOT", "DA_ECAP_FILING_FLAG",
        "DA_FIELD_APPLICATION_WELL_CODE", "DA_FIELD_COMPLETION_DATE",
        "DA_FIELD_COMPLETION_WELL_CODE", "DA_FIELD_NUMBER",
        "DA_FREE_RESTR_FLAG", "DA_FREE_RESTR_KEY", "DA_FREE_RESTR_REMARK",
        "DA_HORIZONTAL_WELL_FLAG", "DA_ISSUE_DATE", "DA_LEASE_NAME_ROOT",
        "DA_NEAREST_WELL", "DA_OLD_SURFACE_LOCATION", "DA_OPERATOR_NAME",
        "DA_OPERATOR_NUMBER_ROOT", "DA_PERMIT_COUNTY_CODE",
        "DA_PERMIT_DISTRICT", "DA_PERMIT_ISSUED_DATE", "DA_PERMIT_LEASE_NAME",
        "DA_PERMIT_NUMBER", "DA_PERMIT_OPERATOR_NUMBER", "DA_PERMIT_ROOT",
        "DA_PERMIT_SEQUENCE_NUMBER", "DA_PERMIT_TOTAL_DEPTH",
        "DA_PERMIT_WELL_NUMBER", "DA_RECEIVED_DATE", "DA_RULE_37_CASE_NUMBER",
        "DA_STATUS_NUMBER", "DA_STATUS_OF_APP_FLAG",
        "DA_STATUS_SEQUENCE_NUMBER", "DA_SURFACE_ACRES",
        "DA_SURFACE_DIRECTION_FROM_CITY", "DA_SURFACE_MILES_FROM_CITY",
        "DA_SURFACE_NEAREST_CITY", "DA_TYPE_APPLICATION",
        "DA_WELL_NUMBER_ROOT", "DA_WELL_STATUS", "PARENT_STATUS_NUMBER",
        "RESTRICTION_TYPE", "RRC_TAPE_RECORD_ID", "SURFACE_LATITUDE",
        "SURFACE_LONGITUDE" >>

\* the header made of the keys of the first row only
csv_header_first_row(rows) ==
    SelectSeq(SortedNames, LAMBDA k : k \in DOMAIN rows[1])

\* lines 183, 193-194, 204-205: sorted(list(set(key for row in rows for key in row.keys())))
csv_header(rows) ==
    SelectSeq(SortedNames, LAMBDA k : \E n \in DOMAIN rows : k \in DOMAIN rows[n])

\* csv writes None as the empty string
csv_cell(v) == IF v = None THEN <<>> ELSE v

\* DictWriter: rowdict.get(key, restval) for each key of fieldnames, restval ''
csv_row(header, row) ==
    [i \in DOMAIN header |-> csv_cell(dict_get_str(row, header[i]))]

\* writer.writeheader(); writer.writerows(rows)
csv_table(rows) ==
    [header |-> csv_header(rows),
     rows |-> [n \in DOMAIN rows |-> csv_row(csv_header(rows), rows[n])]]

\* lines 182, 191, 202: a file is written only for a collection that is not empty
csv_file(name, rows) == IF rows # <<>> THEN name :> csv_table(rows) ELSE EmptyDict

\* lines 181-210
write_outputs(ps, fs, rs) ==
    csv_file("permits.csv", ps) @@ csv_file("permit_fields.csv", fs)
        @@ csv_file("permit_restrictions.csv", rs)

\* line 135: len(line.strip()) == 0
is_blank(line) == Len(strip(line)) = 0

\* only the record ids that have a layout are counted
count_record_known_only(counts, record_id) ==
    IF has_record_map(record_id)
    THEN dict_set(counts, record_id,
             (IF record_id \in DOMAIN counts THEN counts[record_id] ELSE 0) + 1)
    ELSE counts

\* line 139: record_counts[record_id] += 1 on a defaultdict(int)
count_record(counts, record_id) ==
    dict_set(counts, record_id,
             (IF record_id \in DOMAIN counts THEN counts[record_id] ELSE 0) + 1)

(***************************************************************************)
(* Input lines.  Iterating a text file yields lines that end in "\n",      *)
(* except possibly the last one.                                           *)
(***************************************************************************)
NL == <<"\n">>

\* text placed at a 0-indexed column of a line under construction
Put(line, offset, text) == ljust(line, offset) \o text

\* '01' root: status 0000001, sequence 01, county 003
Line01 ==
    Put(Put(Put(Tag01, 2, <<"0", "0", "0", "0", "0", "0", "1">>), 9, <<"0", "1">>), 11, <<"0", "0", "3">>) \o NL

\* '01' root made of the record id alone
Line01Bare == Tag01 \o NL

\* '02' permit master, exactly RECORD_LENGTH characters: permit 0812345,
\* acres 00150000, miles 001250, API number cut at column 510
Line02 ==
    Put(Put(Put(Put(Tag02, 4, <<"0", "8", "1", "2", "3", "4", "5">>), 327, <<"0", "0", "1", "5", "0", "0", "0", "0">>),
            335, <<"0", "0", "1", "2", "5", "0">>), 504, <<"4", "2", "0", "0", "3", "1">>) \o NL

\* '02' permit master: permit 0899999, negative acres, non-numeric miles
Line02b ==
    Put(Put(Put(Tag02, 4, <<"0", "8", "9", "9", "9", "9", "9">>), 327, <<"-", "0", "0", "9", "7", "5", "0", "0">>),
        335, <<"N", "/", "A">>) \o NL

\* '03' field segment
Line03 == Put(Put(Tag03, 2, <<"1", "2", "3", "4", "5", "6", "7", "8">>), 10, <<"A", "B">>) \o NL

\* '03' field segment that ends the file without a newline
Line03Last == Put(Tag03, 2, <<"8", "7", "6", "5", "4", "3", "2", "1">>)

\* '06' canned restriction
Line06 == Put(Put(Tag06, 2, <<"0", "1", "0", "2">>), 6, <<"N", "O", " ", "P", "I", "T", "S">>) \o NL

\* '08' free-form restriction
Line08 == Put(Put(Tag08, 2, <<"0", "7">>), 6, <<"S", "E", "E", " ", "M", "A", "P">>) \o NL

\* '14' GIS surface location
Line14 ==
    Put(Put(Tag14, 3, <<"-", "1", "0", "1", "1", "2", "3", "4", "5", "6", "7", "8">>), 15, <<"3", "2", "1", "2", "3", "4", "5", "6", "7", "8">>) \o NL

\* '15' GIS bottom hole location
Line15 ==
    Put(Put(Tag15, 3, <<"-", "1", "0", "1", "8", "7", "6", "5", "4", "3", "2", "1">>), 15, <<"3", "2", "8", "7", "6", "5", "4", "3", "2", "1">>) \o NL

\* a record id outside RECORD_MAPS
Line99 == Put(<<"9", "9">>, 2, <<"0", "0", "0", "0", "0", "0", "2">>) \o NL

\* a line of white space
LineBlank == <<" ", " ">> \o NL

TerminatedLines ==
    {Line01, Line01Bare, Line02, Line02b, Line03, Line06, Line08,
     Line14, Line15, Line99, LineBlank}

Lines == TerminatedLines \cup {Line03Last}

\* line 136: line.rstrip('\n').ljust(RECORD_LENGTH, ' '), computed once for
\* each line f_in can yield
PaddedLines == [l \in Lines |-> ljust(rstrip_newline(l), RECORD_LENGTH)]

padded(line) == PaddedLines[line]

\* line 138: record_id = line[0:2]
RecordIds == [l \in Lines |-> Slice(PaddedLines[l], 0, 2)]

record_id_of(line) == RecordIds[line]

ends_with_newline(line) == line # <<>> /\ line[Len(line)] = "\n"

\* f_in can yield another line: the last one read ended in a newline
more_input == IF input = <<>> THEN TRUE ELSE ends_with_newline(input[Len(input)])

(***************************************************************************)
(* process_file                                                            *)
(***************************************************************************)
Init ==
    /\ input = <<>>
    /\ pc = "reading"
    /\ permits = <<>>
    /\ all_fields = <<>>
    /\ all_restrictions = <<>>
    /\ current_permit_data = EmptyDict
    /\ line_num = 0
    /\ record_counts = EmptyDict
    /\ fd_pc = "idle"
    /\ fd_value = <<>>
    /\ fd_len = 0
    /\ fd_result = <<>>
    /\ pl_pc = "idle"
    /\ pl_line = <<>>
    /\ pl_id = <<>>
    /\ pl_result = EmptyDict
    /\ csv_out = EmptyDict

\* lines 133-134: the next line is taken from f_in
Fetch(line) ==
    /\ pc = "reading"
    /\ Len(input) < MaxLines
    /\ more_input
    /\ input' = Append(input, line)
    /\ line_num' = line_num + 1
    /\ UNCHANGED <<pc, fd_vars, pl_vars, csv_out>>

\* line 135: a blank line is skipped before it is counted
SkipBlank(line) ==
    /\ Fetch(line)
    /\ is_blank(line)
    /\ UNCHANGED <<permits, all_fields, all_restrictions,
                   current_permit_data, record_counts>>

\* lines 136-139: pad, take the record id, count it
Counted(line) ==
    /\ Fetch(line)
    /\ ~is_blank(line)
    /\ record_counts' = count_record(record_counts, record_id_of(line))

\* lines 141-144
OpenPermit(line) ==
    /\ Counted(line)
    /\ record_id_of(line) = Tag01
    /\ permits' = finalize_on_parent(permits, current_permit_data)
    /\ current_permit_data' = parse_line(padded(line), RECORD_MAPS[Tag01])
    /\ UNCHANGED <<all_fields, all_restrictions>>

\* line 146 false: no current permit, the line falls through
SkipOrphan(line) ==
    /\ Counted(line)
    /\ record_id_of(line) # Tag01
    /\ ~elif_current(current_permit_data)
    /\ UNCHANGED <<permits, all_fields, all_restrictions, current_permit_data>>

\* a line without a layout closes the current permit without appending it
SkipUnknown_drops_parent(line) ==
    /\ Counted(line)
    /\ record_id_of(line) # Tag01
    /\ elif_current(current_permit_data)
    /\ ~has_record_map(record_id_of(line))
    /\ current_permit_data' = EmptyDict
    /\ UNCHANGED <<permits, all_fields, all_restrictions>>

\* lines 147-148: if not record_map: continue
SkipUnknown(line) ==
    /\ Counted(line)
    /\ record_id_of(line) # Tag01
    /\ elif_current(current_permit_data)
    /\ ~has_record_map(record_id_of(line))
    /\ UNCHANGED <<permits, all_fields, all_restrictions, current_permit_data>>

\* the guards shared by lines 150-175
Attached(line, ids) ==
    /\ Counted(line)
    /\ record_id_of(line) # Tag01
    /\ elif_current(current_permit_data)
    /\ has_record_map(record_id_of(line))
    /\ record_id_of(line) \in ids

\* the merge also reaches the permit appended last, as if it were still the
\* same object as the current one
MergePermitMaster_aliased(line) ==
    /\ Attached(line, {Tag02})
    /\ current_permit_data' =
           permit_master_merge(current_permit_data, padded(line), RECORD_MAPS[Tag02])
    /\ permits' =
           IF permits = <<>>
           THEN permits
           ELSE [permits EXCEPT ![Len(permits)] =
                    permit_master_merge(@, padded(line), RECORD_MAPS[Tag02])]
    /\ UNCHANGED <<all_fields, all_restrictions>>

\* lines 150-154
MergePermitMaster(line) ==
    /\ Attached(line, {Tag02})
    /\ current_permit_data' =
           permit_master_merge(current_permit_data, padded(line), RECORD_MAPS[Tag02])
    /\ UNCHANGED <<permits, all_fields, all_restrictions>>

\* the field segment is also merged into the current permit
AppendField_merging(line) ==
    /\ Attached(line, {Tag03})
    /\ all_fields' = Append(all_fields,
           field_entity(padded(line), RECORD_MAPS[Tag03], current_permit_data))
    /\ current_permit_data' =
           dict_update(current_permit_data, parse_line(padded(line), RECORD_MAPS[Tag03]))
    /\ UNCHANGED <<permits, all_restrictions>>

\* lines 156-159
AppendField(line) ==
    /\ Attached(line, {Tag03})
    /\ all_fields' = Append(all_fields,
           field_entity(padded(line), RECORD_MAPS[Tag03], current_permit_data))
    /\ UNCHANGED <<permits, all_restrictions, current_permit_data>>

\* the restriction is put in front of the collection
AppendRestriction_in_front(line) ==
    /\ Attached(line, {Tag06, Tag08})
    /\ all_restrictions' =
           <<restriction_entity(padded(line), RECORD_MAPS[record_id_of(line)],
                                record_id_of(line), current_permit_data)>>
               \o all_restrictions
    /\ UNCHANGED <<permits, all_fields, current_permit_data>>

\* lines 161-165
AppendRestriction(line) ==
    /\ Attached(line, {Tag06, Tag08})
    /\ all_restrictions' = Append(all_restrictions,
           restriction_entity(padded(line), RECORD_MAPS[record_id_of(line)],
                              record_id_of(line), current_permit_data))
    /\ UNCHANGED <<permits, all_fields, current_permit_data>>

\* lines 167-170
MergeGisSurface(line) ==
    /\ Attached(line, {Tag14})
    /\ current_permit_data' =
           gis_surface_merge(current_permit_data, padded(line), RECORD_MAPS[Tag14])
    /\ UNCHANGED <<permits, all_fields, all_restrictions>>

\* lines 172-175
MergeGisBottom(line) ==
    /\ Attached(line, {Tag15})
    /\ current_permit_data' =
           gis_bottom_merge(current_permit_data, padded(line), RECORD_MAPS[Tag15])
    /\ UNCHANGED <<permits, all_fields, all_restrictions>>

\* lines 177-210: f_in is exhausted, the last permit is appended and the
\* tables are written
EndOfInput ==
    /\ pc = "reading"
    /\ pc' = "done"
    /\ permits' = finalize_at_eof(permits, current_permit_data)
    /\ csv_out' = write_outputs(permits', all_fields, all_restrictions)
    /\ UNCHANGED <<input, all_fields, all_restrictions, current_permit_data,
                   line_num, record_counts, fd_vars, pl_vars>>

Next ==
    \/ \E line \in Lines : SkipBlank(line)
    \/ \E line \in Lines : OpenPermit(line)
    \/ \E line \in Lines : SkipOrphan(line)
    \/ \E line \in Lines : SkipUnknown(line)
    \/ \E line \in Lines : MergePermitMaster(line)
    \/ \E line \in Lines : AppendField(line)
    \/ \E line \in Lines : AppendRestriction(line)
    \/ \E line \in Lines : MergeGisSurface(line)
    \/ \E line \in Lines : MergeGisBottom(line)
    \/ EndOfInput

Spec == Init /\ [][Next]_vars

(***************************************************************************)
(* format_implied_decimal on its own: one call on an argument drawn from   *)
(* the strings over a small alphabet, the reference strings, and the       *)
(* integer_part_len values of the call sites (6, 4, 2, 3).                 *)
(***************************************************************************)
Alphabet == {"0", "5", "-", ".", "A"}

Strings(n) == UNION {[1..k -> Alphabet] : k \in 0..n}

ReferenceValues ==
    {<<"0", "0", "1", "5", "0", "0", "0", "0">>,
     <<"-", "0", "0", "9", "7", "5", "0", "0">>,
     <<"A", "B", "C">>,
     <<"1", "2", ".", "3", "4", "5">>,
     <<"1", "2", "-", "3", "4">>,
     <<"-", "-", "5">>}

CallSiteLens == {2, 3, 4, 6}

FdInit ==
    /\ input = <<>>
    /\ pc = "reading"
    /\ permits = <<>>
    /\ all_fields = <<>>
    /\ all_restrictions = <<>>
    /\ current_permit_data = EmptyDict
    /\ line_num = 0
    /\ record_counts = EmptyDict
    /\ fd_pc = "call"
    /\ fd_value \in Strings(MaxValueLen) \cup ReferenceValues
    /\ fd_len \in (1..MaxIntegerPartLen) \cup CallSiteLens
    /\ fd_result = <<>>
    /\ pl_pc = "idle"
    /\ pl_line = <<>>
    /\ pl_id = <<>>
    /\ pl_result = EmptyDict
    /\ csv_out = EmptyDict

FdCall ==
    /\ fd_pc = "call"
    /\ fd_result' = format_implied_decimal(fd_value, fd_len)
    /\ fd_pc' = "returned"
    /\ UNCHANGED <<fd_value, fd_len, asm_vars, pl_vars, csv_out>>

FdNext == FdCall

FdSpec == FdInit /\ [][FdNext]_vars

(***************************************************************************)
(* parse_line on its own: one call, as process_file makes it, on a line    *)
(* padded to RECORD_LENGTH and the layout of a record id.                  *)
(***************************************************************************)
\* '02' permit master longer than RECORD_LENGTH: the API number is complete
Line02Long ==
    Put(Put(Tag02, 4, <<"0", "8", "1", "2", "3", "4", "5">>), 504, <<"4", "2", "0", "0", "3", "1", "2", "3">>) \o NL

PlLines == Lines \cup {Line02Long}

PlInit ==
    /\ input = <<>>
    /\ pc = "reading"
    /\ permits = <<>>
    /\ all_fields = <<>>
    /\ all_restrictions = <<>>
    /\ current_permit_data = EmptyDict
    /\ line_num = 0
    /\ record_counts = EmptyDict
    /\ fd_pc = "idle"
    /\ fd_value = <<>>
    /\ fd_len = 0
    /\ fd_result = <<>>
    /\ pl_pc = "call"
    /\ pl_line \in PlLines
    /\ pl_id \in KnownTags
    /\ pl_result = EmptyDict
    /\ csv_out = EmptyDict

\* the line as parse_line receives it (line 136)
pl_padded == ljust(rstrip_newline(pl_line), RECORD_LENGTH)

PlCall ==
    /\ pl_pc = "call"
    /\ pl_result' = parse_line(pl_padded, RECORD_MAPS[pl_id])
    /\ pl_pc' = "returned"
    /\ UNCHANGED <<pl_line, pl_id, asm_vars, fd_vars, csv_out>>

PlNext == PlCall

PlSpec == PlInit /\ [][PlNext]_vars

(***************************************************************************)
(* What the input says, read off the consumed lines independently of the   *)
(* assembler's variables.                                                  *)
(***************************************************************************)
MergeTags == {Tag02, Tag14, Tag15}
ChildTags == {Tag03, Tag06, Tag08}

\* character i of a line, a space beyond its end or at its newline
CharAt(line, i) == IF i <= Len(line) /\ line[i] # "\n" THEN line[i] ELSE " "

\* the first two characters of a line, short lines filled with spaces
LineTag(line) == <<CharAt(line, 1), CharAt(line, 2)>>

\* columns 3 to 9 of a line, trimmed
LineStatus(line) == strip([i \in 1..7 |-> CharAt(line, i + 2)])

IsData(line) == \E i \in DOMAIN line : ~IsSpace(line[i])

ParentIdx == {i \in DOMAIN input : IsData(input[i]) /\ LineTag(input[i]) = Tag01}

HasParentBefore(i) == \E j \in ParentIdx : j < i

LastParentBefore(i) ==
    CHOOSE j \in ParentIdx : j < i /\ \A k \in ParentIdx : k < i => k <= j

\* positions of the lines of the given tags that follow some '01' line
AttachedIdx(tags) ==
    LET parents == ParentIdx
    IN  {i \in DOMAIN input :
            /\ LineTag(input[i]) \in tags
            /\ IsData(input[i])
            /\ \E j \in parents : j < i}

\* the n-th smallest element of a set of positions
Nth(S, n) == CHOOSE x \in S : Cardinality({y \in S : y <= x}) = n

\* the implied-decimal fields and their integer digit counts
ImpliedDecimals ==
    [DA_SURFACE_ACRES |-> 6, DA_SURFACE_MILES_FROM_CITY |-> 4,
     SURFACE_LATITUDE |-> 2, SURFACE_LONGITUDE |-> 3,
     BH_LATITUDE |-> 2, BH_LONGITUDE |-> 3]

\* the decoded fields of a merge-tag line, implied decimals normalized
NormalizedFields(line) ==
    LET d == parse_line(padded(line), RECORD_MAPS[LineTag(line)])
    IN  [k \in DOMAIN d |->
            IF k \in DOMAIN ImpliedDecimals
            THEN format_implied_decimal(d[k], ImpliedDecimals[k])
            ELSE d[k]]

\* the map of the parent opened by line 1 after the merge lines 2..i
RECURSIVE MergedThrough(_)
MergedThrough(i) ==
    IF i = 1
    THEN parse_line(padded(input[1]), RECORD_MAPS[Tag01])
    ELSE dict_update(MergedThrough(i - 1), NormalizedFields(input[i]))

(***************************************************************************)
(* C1: every field segment and every restriction segment carries, as       *)
(* PARENT_STATUS_NUMBER, the status number of the most recent '01' line    *)
(* that precedes the line it was decoded from.                             *)
(***************************************************************************)
C1_BackReference ==
    LET fieldIdx == AttachedIdx({Tag03})
        restrIdx == AttachedIdx({Tag06, Tag08})
    IN  /\ Len(all_fields) <= Cardinality(fieldIdx)
        /\ Len(all_restrictions) <= Cardinality(restrIdx)
        /\ \A n \in DOMAIN all_fields :
               all_fields[n]["PARENT_STATUS_NUMBER"] =
                   LineStatus(input[LastParentBefore(Nth(fieldIdx, n))])
        /\ \A n \in DOMAIN all_restrictions :
               all_restrictions[n]["PARENT_STATUS_NUMBER"] =
                   LineStatus(input[LastParentBefore(Nth(restrIdx, n))])

\* a field segment and a restriction segment of two different parents
C1_Witness ==
    /\ all_fields # <<>>
    /\ all_restrictions # <<>>
    /\ all_fields[1]["PARENT_STATUS_NUMBER"] = <<"0", "0", "0", "0", "0", "0", "1">>
    /\ all_restrictions[1]["PARENT_STATUS_NUMBER"] = <<>>

(***************************************************************************)
(* C2: after a complete pass the status numbers of the finalized permits   *)
(* are the status numbers of the '01' lines, in input order.               *)
(***************************************************************************)
C2_AllParentsFinalizedOnce ==
    pc = "done" =>
        /\ Len(permits) = Cardinality(ParentIdx)
        /\ \A n \in DOMAIN permits :
               permits[n]["DA_STATUS_NUMBER"] = LineStatus(input[Nth(ParentIdx, n)])

\* a pass over two parents of different status numbers, the last one
\* current at end of input
C2_Witness ==
    /\ pc = "done"
    /\ Len(permits) = 2
    /\ permits[1]["DA_STATUS_NUMBER"] # permits[2]["DA_STATUS_NUMBER"]
    /\ Len(input) \in ParentIdx

(***************************************************************************)
(* C3: a prefix of the input without any '01' line leaves the permits,     *)
(* field-segment and restriction-segment collections empty.                *)
(***************************************************************************)
C3_NoEntityWithoutParent ==
    ParentIdx = {} =>
        /\ permits = <<>>
        /\ all_fields = <<>>
        /\ all_restrictions = <<>>

\* child and merge lines were read and no '01' line
C3_Witness ==
    /\ ParentIdx = {}
    /\ pc = "done"
    /\ \E i \in DOMAIN input : LineTag(input[i]) = Tag03
    /\ \E i \in DOMAIN input : LineTag(input[i]) \in {Tag06, Tag08}
    /\ \E i \in DOMAIN input : LineTag(input[i]) \in MergeTags

(***************************************************************************)
(* C4: before end of input the finalized permits are one fewer than the    *)
(* '01' lines read when a parent is current and none otherwise, a parent   *)
(* being current exactly when an '01' line was read: the parent opened     *)
(* last is not among them.                                                 *)
(***************************************************************************)
C4_FinalizedOnlyOnTrigger ==
    pc = "reading" =>
        /\ truthy(current_permit_data) <=> ParentIdx # {}
        /\ Len(permits) =
               IF truthy(current_permit_data) THEN Cardinality(ParentIdx) - 1 ELSE 0

\* reading stopped after lines were attached to the second parent
C4_Witness ==
    /\ pc = "reading"
    /\ Cardinality(ParentIdx) = 2
    /\ Len(permits) = 1
    /\ Len(input) \notin ParentIdx

(***************************************************************************)
(* C5: on an input made of an '01' line, merge-tag lines, child-tag lines  *)
(* and a second '01' line, once the second '01' line is processed there is *)
(* one finalized permit, its map is the opening line's fields updated with *)
(* the normalized fields of each merge line in order, and the child        *)
(* collections hold one entity per child line, stamped with the first      *)
(* parent's status number.                                                 *)
(***************************************************************************)
\* input = '01', merge lines up to position k, child lines, '01'
C5_Shape(k) ==
    /\ pc = "reading"
    /\ Len(input) >= 2
    /\ k \in 1..(Len(input) - 1)
    /\ LineTag(input[Len(input)]) = Tag01
    /\ ParentIdx = {1, Len(input)}
    /\ \A i \in 2..(Len(input) - 1) :
           /\ IsData(input[i])
           /\ i <= k => LineTag(input[i]) \in MergeTags
           /\ i > k => LineTag(input[i]) \in ChildTags

C5_ParentThenChildren ==
    \A k \in 1..Len(input) :
        C5_Shape(k) =>
            /\ Len(permits) = 1
            /\ permits[1] = MergedThrough(k)
            /\ Len(all_fields) =
                   Cardinality({i \in DOMAIN input : LineTag(input[i]) = Tag03})
            /\ Len(all_restrictions) =
                   Cardinality({i \in DOMAIN input : LineTag(input[i]) \in {Tag06, Tag08}})
            /\ \A n \in DOMAIN all_fields :
                   all_fields[n]["PARENT_STATUS_NUMBER"] = LineStatus(input[1])
            /\ \A n \in DOMAIN all_restrictions :
                   all_restrictions[n]["PARENT_STATUS_NUMBER"] = LineStatus(input[1])

\* '01', a permit-master line, a child line, '01'
C5_Witness ==
    /\ C5_Shape(2)
    /\ Len(input) = 4
    /\ LineTag(input[2]) = Tag02
    /\ LineStatus(input[1]) # <<>>
    /\ Len(all_fields) + Len(all_restrictions) = 1

(***************************************************************************)
(* C6: the DA_STATUS_NUMBER of a permit, current or finalized, is the one  *)
(* decoded from the '01' line that created it, whatever lines were         *)
(* processed while it was current.                                         *)
(***************************************************************************)
C6_IdentityNeverChanges ==
    /\ truthy(current_permit_data) =>
           /\ ParentIdx # {}
           /\ current_permit_data["DA_STATUS_NUMBER"] =
                  LineStatus(input[LastParentBefore(Len(input) + 1)])
    /\ \A n \in DOMAIN permits :
           /\ n <= Cardinality(ParentIdx)
           /\ permits[n]["DA_STATUS_NUMBER"] = LineStatus(input[Nth(ParentIdx, n)])

\* a permit with a status number that took a permit-master and a GIS merge
C6_Witness ==
    /\ truthy(current_permit_data)
    /\ current_permit_data["DA_STATUS_NUMBER"] = <<"0", "0", "0", "0", "0", "0", "1">>
    /\ "DA_PERMIT_NUMBER" \in DOMAIN current_permit_data
    /\ "SURFACE_LATITUDE" \in DOMAIN current_permit_data

(***************************************************************************)
(* C7: after a complete pass every field segment and restriction segment   *)
(* has exactly one permit whose DA_STATUS_NUMBER equals its                *)
(* PARENT_STATUS_NUMBER.                                                   *)
(***************************************************************************)
ParentsOf(child) ==
    {n \in DOMAIN permits :
        permits[n]["DA_STATUS_NUMBER"] = child["PARENT_STATUS_NUMBER"]}

C7_ExactlyOneParent ==
    pc = "done" =>
        /\ \A n \in DOMAIN all_fields : Cardinality(ParentsOf(all_fields[n])) = 1
        /\ \A n \in DOMAIN all_restrictions :
               Cardinality(ParentsOf(all_restrictions[n])) = 1

(***************************************************************************)
(* Numeric strings: an optional leading '-' followed by ASCII digits.      *)
(***************************************************************************)
IsNegative(s) == s # <<>> /\ s[1] = "-"

\* the characters after the optional sign
Unsigned(s) == IF IsNegative(s) THEN Tail(s) ELSE s

IsSignedDigits(s) ==
    /\ Unsigned(s) # <<>>
    /\ \A i \in DOMAIN Unsigned(s) : Unsigned(s)[i] \in Digits

\* s with a '.' inserted so that it becomes character p
WithPointAt(s, p) ==
    [i \in 1..(Len(s) + 1) |->
        IF i < p THEN s[i] ELSE IF i = p THEN "." ELSE s[i - 1]]

(***************************************************************************)
(* C8: format_implied_decimal returns its argument unchanged when the      *)
(* argument is empty or is anything but an optional leading '-' followed   *)
(* by ASCII digits.                                                        *)
(***************************************************************************)
C8_NonNumericPassThrough ==
    (fd_pc = "returned" /\ ~IsSignedDigits(fd_value)) => fd_result = fd_value

(***************************************************************************)
(* C9: the reference values of format_implied_decimal with six integer     *)
(* digits: "00150000" gives "001.50000", "-0097500" gives "-0.097500",     *)
(* "ABC" gives "ABC" and "" gives "".                                      *)
(***************************************************************************)
C9_ReferenceValuesAsListed ==
    (fd_pc = "returned" /\ fd_len = 6) =>
        /\ fd_value = <<"0", "0", "1", "5", "0", "0", "0", "0">> =>
               fd_result = <<"0", "0", "1", ".", "5", "0", "0", "0", "0">>
        /\ fd_value = <<"-", "0", "0", "9", "7", "5", "0", "0">> =>
               fd_result = <<"-", "0", ".", "0", "9", "7", "5", "0", "0">>
        /\ fd_value = <<"A", "B", "C">> => fd_result = <<"A", "B", "C">>
        /\ fd_value = <<>> => fd_result = <<>>

(***************************************************************************)
(* C9, amended: with six integer digits "00150000" gives "001500.00" and   *)
(* "-0097500" gives "-009750.0" (the point follows the sixth digit, the    *)
(* sign is kept); "ABC" gives "ABC" and "" gives "".                       *)
(***************************************************************************)
C9_ReferenceValues ==
    (fd_pc = "returned" /\ fd_len = 6) =>
        /\ fd_value = <<"0", "0", "1", "5", "0", "0", "0", "0">> =>
               fd_result = <<"0", "0", "1", "5", "0", "0", ".", "0", "0">>
        /\ fd_value = <<"-", "0", "0", "9", "7", "5", "0", "0">> =>
               fd_result = <<"-", "0", "0", "9", "7", "5", "0", ".", "0">>
        /\ fd_value = <<"A", "B", "C">> => fd_result = <<"A", "B", "C">>
        /\ fd_value = <<>> => fd_result = <<>>

\* the call on the negative reference value has returned
C9_Witness ==
    /\ fd_pc = "returned"
    /\ fd_len = 6
    /\ fd_value = <<"-", "0", "0", "9", "7", "5", "0", "0">>

(***************************************************************************)
(* C10: for an optional '-' followed by k >= 1 digits and n >= 1 integer   *)
(* digits, the result is the argument itself when k <= n, and otherwise    *)
(* the argument with a '.' inserted after its first n digits, the sign     *)
(* kept in front and not counted among the n digits.                       *)
(***************************************************************************)
C10_PointAfterIntegerDigits ==
    (fd_pc = "returned" /\ IsSignedDigits(fd_value) /\ fd_len >= 1) =>
        LET k == Len(Unsigned(fd_value))
            sign == IF IsNegative(fd_value) THEN 1 ELSE 0
        IN  fd_result =
                IF k <= fd_len
                THEN fd_value
                ELSE WithPointAt(fd_value, sign + fd_len + 1)

\* a negative value with more digits than integer digits, and one whose
\* digits, but not its characters, fit
C10_Witness ==
    /\ fd_pc = "returned"
    /\ IsSignedDigits(fd_value)
    /\ IsNegative(fd_value)
    /\ Len(Unsigned(fd_value)) = fd_len + 1
    /\ fd_result[Len(fd_result) - 1] = "."

(***************************************************************************)
(* parse_line and the layout registry against the record length.          *)
(***************************************************************************)
\* the entries of a layout as a set of indices
Entries(record_id) == DOMAIN RECORD_MAPS[record_id]

\* the entries whose range [offset, offset+length) ends past the end of line
PastEnd(line, record_id) ==
    {n \in Entries(record_id) :
        RECORD_MAPS[record_id][n][2] + RECORD_MAPS[record_id][n][3] > Len(line)}

\* C11: parse_line returns a value for every name of the layout, and a field
\* whose range extends past the end of the padded line is the empty string
C11_PastEndIsEmpty ==
    pl_pc = "returned" =>
        /\ DOMAIN pl_result = {RECORD_MAPS[pl_id][n][1] : n \in Entries(pl_id)}
        /\ \A n \in PastEnd(pl_padded, pl_id) :
               pl_result[RECORD_MAPS[pl_id][n][1]] = <<>>

\* C18: every entry of the layout of every tag ends within RECORD_LENGTH, and
\* a decoded line of RECORD_LENGTH characters has every field in full
C18_LayoutsFitRecord ==
    pl_pc = "returned" =>
        /\ \A n \in Entries(pl_id) :
               RECORD_MAPS[pl_id][n][2] + RECORD_MAPS[pl_id][n][3] <= RECORD_LENGTH
        /\ Len(pl_padded) = RECORD_LENGTH => PastEnd(pl_padded, pl_id) = {}

(***************************************************************************)
(* C12: after a complete pass the count of every tag is the number of      *)
(* non-blank input lines that begin with it, used, orphan or unrecognized  *)
(* alike, and blank lines are counted under no tag.                        *)
(***************************************************************************)
LinesOfTag(tag) == {i \in DOMAIN input : IsData(input[i]) /\ LineTag(input[i]) = tag}

C12_CountsEveryTaggedLine ==
    pc = "done" =>
        /\ DOMAIN record_counts = {LineTag(input[i]) : i \in {j \in DOMAIN input : IsData(input[j])}}
        /\ \A tag \in DOMAIN record_counts :
               record_counts[tag] = Cardinality(LinesOfTag(tag))

\* an orphan '03' line, a parent, an unrecognized line and a blank line
C12_Witness ==
    /\ pc = "done"
    /\ Len(input) = 4
    /\ input[1] = Line03
    /\ input[2] = Line01
    /\ input[3] = Line99
    /\ input[4] = LineBlank
    /\ all_fields = <<>>
    /\ DOMAIN record_counts = {Tag01, Tag03, LineTag(Line99)}

(***************************************************************************)
(* C13: each emitted table has as header the union of the keys of all the  *)
(* rows of its collection, and every row has a value under every column,   *)
(* empty where the entity lacks the key; restrictions of both kinds give a *)
(* header with the columns of both layouts, PARENT_STATUS_NUMBER and       *)
(* RESTRICTION_TYPE.                                                       *)
(***************************************************************************)
Collections ==
    ("permits.csv" :> permits) @@ ("permit_fields.csv" :> all_fields)
        @@ ("permit_restrictions.csv" :> all_restrictions)

Columns(table) == {table.header[i] : i \in DOMAIN table.header}

LayoutNames(record_id) == {RECORD_MAPS[record_id][n][1] : n \in DOMAIN RECORD_MAPS[record_id]}

C13_HeaderIsUnionOfKeys ==
    pc = "done" =>
        /\ \A name \in DOMAIN csv_out :
               LET rows == Collections[name]
                   table == csv_out[name]
               IN  /\ Columns(table) = UNION {DOMAIN rows[n] : n \in DOMAIN rows}
                   /\ Len(table.header) = Cardinality(Columns(table))
                   /\ DOMAIN table.rows = DOMAIN rows
                   /\ \A n \in DOMAIN rows :
                          /\ DOMAIN table.rows[n] = DOMAIN table.header
                          /\ \A i \in DOMAIN table.header :
                                 table.rows[n][i] =
                                     IF table.header[i] \in DOMAIN rows[n]
                                     THEN rows[n][table.header[i]]
                                     ELSE <<>>
        /\ \A name \in DOMAIN Collections :
               Collections[name] # <<>> => name \in DOMAIN csv_out
        /\ (/\ \E n \in DOMAIN all_restrictions :
                   all_restrictions[n]["RESTRICTION_TYPE"] = CANNED
            /\ \E n \in DOMAIN all_restrictions :
                   all_restrictions[n]["RESTRICTION_TYPE"] = FREE_FORM)
           => LayoutNames(Tag06) \cup LayoutNames(Tag08)
                  \cup {"PARENT_STATUS_NUMBER", "RESTRICTION_TYPE"}
                  \subseteq Columns(csv_out["permit_restrictions.csv"])

\* a '06' restriction first, then a '08' one: the first row is empty under a
\* column that only the second entity has
C13_Witness ==
    /\ pc = "done"
    /\ Len(all_restrictions) = 2
    /\ all_restrictions[1]["RESTRICTION_TYPE"] = CANNED
    /\ all_restrictions[2]["RESTRICTION_TYPE"] = FREE_FORM
    /\ "permit_restrictions.csv" \in DOMAIN csv_out
    /\ LET table == csv_out["permit_restrictions.csv"]
       IN  \E i \in DOMAIN table.header :
               /\ table.header[i] = "DA_FREE_RESTR_REMARK"
               /\ table.rows[1][i] = <<>>
               /\ table.rows[2][i] # <<>>

(***************************************************************************)
(* C14: a non-blank line whose tag has no layout changes neither the       *)
(* current parent (or its absence), nor its field map, nor the permits,    *)
(* field-segment and restriction-segment collections, with or without a    *)
(* current parent.                                                         *)
(***************************************************************************)
\* the step consumes one more line, and it is the given kind of line
Consumes(P(_)) == Len(input') = Len(input) + 1 /\ P(input'[Len(input')])

Unrecognized(line) == IsData(line) /\ LineTag(line) \notin KnownTags

C14_UnrecognizedChangesNothing ==
    [][Consumes(Unrecognized) =>
           UNCHANGED <<current_permit_data, permits, all_fields, all_restrictions>>]_vars

\* an unrecognized line has just been read while a parent with a field
\* segment is current
C14_Witness ==
    /\ pc = "reading"
    /\ Len(input) = 3
    /\ Unrecognized(input[3])
    /\ truthy(current_permit_data)
    /\ Len(all_fields) = 1

(***************************************************************************)
(* C15: every restriction segment carries RESTRICTION_TYPE, CANNED exactly *)
(* when its line was a '06' line and FREE_FORM exactly when it was a '08'  *)
(* line; no field segment and no permit, current or finalized, carries it. *)
(***************************************************************************)
C15_RestrictionTypeDiscriminates ==
    LET restrIdx == AttachedIdx({Tag06, Tag08})
    IN  /\ \A n \in DOMAIN all_restrictions :
               LET tag == LineTag(input[Nth(restrIdx, n)])
                   r == all_restrictions[n]
               IN  /\ "RESTRICTION_TYPE" \in DOMAIN r
                   /\ r["RESTRICTION_TYPE"] \in {CANNED, FREE_FORM}
                   /\ r["RESTRICTION_TYPE"] = CANNED <=> tag = Tag06
                   /\ r["RESTRICTION_TYPE"] = FREE_FORM <=> tag = Tag08
        /\ \A n \in DOMAIN all_fields : "RESTRICTION_TYPE" \notin DOMAIN all_fields[n]
        /\ \A n \in DOMAIN permits : "RESTRICTION_TYPE" \notin DOMAIN permits[n]
        /\ "RESTRICTION_TYPE" \notin DOMAIN current_permit_data

\* a '08' restriction before a '06' one, next to a field segment and a
\* finalized permit
C15_Witness ==
    /\ Len(all_restrictions) = 2
    /\ all_restrictions[1]["RESTRICTION_TYPE"] = FREE_FORM
    /\ all_restrictions[2]["RESTRICTION_TYPE"] = CANNED
    /\ all_fields # <<>>
    /\ permits # <<>>

(***************************************************************************)
(* C16: the field segments are, in input order, one entity per '03' line   *)
(* that follows a parent, and the restriction segments are, in input       *)
(* order, one entity per '06' or '08' line that follows a parent; none is  *)
(* dropped or duplicated.                                                  *)
(***************************************************************************)
\* the layout fields decoded from each line of the pool that has a layout,
\* as an explicit table
Decoded ==
    [l \in {x \in Lines : LineTag(x) \in KnownTags} |->
        parse_line(padded(l), RECORD_MAPS[LineTag(l)])] @@ EmptyDict

\* the entity holds the fields of the line it is said to come from
DecodedFrom(entity, line) ==
    LET d == Decoded[line]
    IN  \A k \in DOMAIN d : k \in DOMAIN entity /\ entity[k] = d[k]

C16_ChildrenInInputOrder ==
    LET fieldIdx == AttachedIdx({Tag03})
        restrIdx == AttachedIdx({Tag06, Tag08})
    IN  /\ Len(all_fields) = Cardinality(fieldIdx)
        /\ Len(all_restrictions) = Cardinality(restrIdx)
        /\ \A n \in DOMAIN all_fields :
               DecodedFrom(all_fields[n], input[Nth(fieldIdx, n)])
        /\ \A n \in DOMAIN all_restrictions :
               DecodedFrom(all_restrictions[n], input[Nth(restrIdx, n)])

\* a '08' line, a '03' line and a '06' line, in this order, after a parent
C16_Witness ==
    /\ Len(input) = 4
    /\ input[1] = Line01
    /\ input[2] = Line08
    /\ input[3] = Line03
    /\ input[4] = Line06
    /\ Len(all_fields) = 1
    /\ Len(all_restrictions) = 2
    /\ DecodedFrom(all_restrictions[1], Line08)
    /\ DecodedFrom(all_restrictions[2], Line06)

(***************************************************************************)
(* C17: no permit, current or finalized, ever has the key                  *)
(* PARENT_STATUS_NUMBER or a field name of the '03', '06' or '08' layout,  *)
(* and a step that processes a child line leaves the map of the current    *)
(* permit as it was.                                                       *)
(***************************************************************************)
ChildNames ==
    LayoutNames(Tag03) \cup LayoutNames(Tag06) \cup LayoutNames(Tag08)
        \cup {"PARENT_STATUS_NUMBER"}

NoChildNames ==
    /\ DOMAIN current_permit_data \cap ChildNames = {}
    /\ \A n \in DOMAIN permits : DOMAIN permits[n] \cap ChildNames = {}

ChildLine(line) == IsData(line) /\ LineTag(line) \in ChildTags

C17_ChildrenNeverMerged ==
    /\ []NoChildNames
    /\ [][Consumes(ChildLine) => UNCHANGED current_permit_data]_vars

\* a field segment and a restriction have been attached to a permit that
\* was then finalized, and another permit is current
C17_Witness ==
    /\ Len(permits) = 1
    /\ truthy(current_permit_data)
    /\ Len(all_fields) = 1
    /\ Len(all_restrictions) = 1
    /\ all_fields[1]["PARENT_STATUS_NUMBER"] = permits[1]["DA_STATUS_NUMBER"]

(***************************************************************************)
(* C19: a permit that has been appended to permits is never modified       *)
(* afterwards: every later step leaves it at its position with the same    *)
(* keys and values, and a merge line changes only the current permit.      *)
(***************************************************************************)
MergeLine(line) == IsData(line) /\ LineTag(line) \in MergeTags

C19_FinalizedNeverModified ==
    [][/\ \A n \in DOMAIN permits : n \in DOMAIN permits' /\ permits'[n] = permits[n]
       /\ Consumes(MergeLine) => permits' = permits]_vars

\* a permit was finalized, and the permit opened after it has received a
\* '02' merge that the finalized one does not show
C19_Witness ==
    /\ Len(permits) = 1
    /\ "DA_PERMIT_NUMBER" \in DOMAIN current_permit_data
    /\ "DA_PERMIT_NUMBER" \notin DOMAIN permits[1]
    /\ Len(input) = 3
    /\ MergeLine(input[3])

(***************************************************************************)
(* C20: every '01' line opens a current permit, whatever its content, also *)
(* when it is only the tag and DA_STATUS_NUMBER decodes to the empty       *)
(* string: the merge and child lines after it attach to it, and it is      *)
(* finalized on the next '01' line or at end of input.                     *)
(***************************************************************************)
C20_EveryParentLineOpens ==
    LET parents == ParentIdx
    IN  IF parents = {}
        THEN /\ ~truthy(current_permit_data)
             /\ permits = <<>>
             /\ all_fields = <<>>
             /\ all_restrictions = <<>>
        ELSE LET first == CHOOSE j \in parents : \A k \in parents : j <= k
                 last == CHOOSE j \in parents : \A k \in parents : k <= j
             IN  /\ truthy(current_permit_data)
                 /\ DecodedFrom(current_permit_data, input[last])
                 \* the merge lines read since the last '01' line
                 /\ \A i \in (last + 1)..Len(input) :
                        MergeLine(input[i]) =>
                            LayoutNames(LineTag(input[i]))
                                \subseteq DOMAIN current_permit_data
                 \* the child lines read since the first '01' line
                 /\ Len(all_fields) + Len(all_restrictions) =
                        Cardinality({i \in (first + 1)..Len(input) :
                                        ChildLine(input[i])})
                 /\ Len(permits) =
                        IF pc = "done"
                        THEN Cardinality(parents)
                        ELSE Cardinality(parents) - 1

\* a '01' line of two characters, then a '02' line and a '03' line, then end
\* of input: one permit without status number, merged, with a field segment
C20_Witness ==
    /\ pc = "done"
    /\ Len(input) = 3
    /\ input[1] = Line01Bare
    /\ input[2] = Line02
    /\ input[3] = Line03
    /\ Len(permits) = 1
    /\ permits[1]["DA_STATUS_NUMBER"] = <<>>
    /\ "DA_PERMIT_NUMBER" \in DOMAIN permits[1]
    /\ Len(all_fields) = 1
    /\ all_fields[1]["PARENT_STATUS_NUMBER"] = <<>>

====
